---- MODULE Spec2Model ----
(***************************************************************************)
(* The polling loop of the TeamCity Prometheus exporter (src/app/main.py): *)
(* fetch_and_update_metrics and the helpers it calls, run against a small  *)
(* TeamCity server whose state (latest builds, archived projects) is the   *)
(* environment.  The three Prometheus gauges are the sink.                 *)
(***************************************************************************)
EXTENDS Integers, Sequences, FiniteSets, TLC

(* ---------------------------------------------------------------------- *)
(* Optional values: a JSON field that may be missing, a Python None.       *)
(* ---------------------------------------------------------------------- *)
None == <<>>
Some(x) == <<x>>
Get(o) == o[1]

(* ---------------------------------------------------------------------- *)
(* Bounds of the exploration.                                              *)
(* ---------------------------------------------------------------------- *)
\* how many times the TeamCity server's state changes during a run
MaxChanges == 2

(* ---------------------------------------------------------------------- *)
(* Process configuration (environment variables, read once).               *)
(* ---------------------------------------------------------------------- *)
\* the values os.environ can hold for the three required settings; a list
\* setting is the sequence of its comma-separated items, "" a blank item
UrlChoices == {None, Some(""), Some("https://tc")}
TokenChoices == {None, Some("token")}
TemplateIdsChoices == {None, Some(<<"", "">>), Some(<<"Stop", "", "Build">>)}

START_PROJECT_CHAIN == {"Start"}
STOP_PROJECT_CHAIN == {"Stop"}

(* ---------------------------------------------------------------------- *)
(* Timestamps "%Y%m%dT%H%M%S%z": the fields of the raw string.  off is the *)
(* UTC offset in whole hours (+0100 is 1).                                 *)
(* ---------------------------------------------------------------------- *)
TS(h, m, s, off) == [day |-> 2, h |-> h, m |-> m, s |-> s, off |-> off]

\* datetime.strptime(raw, fmt) as an aware datetime: seconds on the UTC axis
strptime(raw) == ((raw.day * 24 + raw.h - raw.off) * 60 + raw.m) * 60 + raw.s

(* ---------------------------------------------------------------------- *)
(* The TeamCity server: fixed part.                                        *)
(* ---------------------------------------------------------------------- *)
cA == [id |-> "cA", name |-> "A", projectId |-> "P2", projectName |-> "Two", webUrl |-> "u/cA"]
cB == [id |-> "cB", name |-> "B", projectId |-> "P1", projectName |-> "One", webUrl |-> "u/cB"]
cC == [id |-> "cC", name |-> "C", projectId |-> "P1", projectName |-> "One", webUrl |-> "u/cC"]

Configs == {cA, cB, cC}
ConfigIds == {"cA", "cB", "cC"}
Projects == {"P1", "P2"}

\* GET /app/rest/buildTypes?locator=template:<id>,paused:false
BuildTypesOfTemplate(template_id) ==
    CASE template_id = "Build" -> <<cA, cB>>
      [] template_id = "Stop"  -> <<cB, cC>>
      [] OTHER                 -> <<>>

\* a build object of the builds endpoint; a missing JSON field is None
Build(id, number, status, startDate, finishDate, bt) ==
    [id |-> id, number |-> number, status |-> status,
     startDate |-> startDate, finishDate |-> finishDate, buildTypeId |-> bt]

\* builds of the upstream configurations (not polled themselves)
B101 == Build(101, "1", "SUCCESS", Some(TS(9, 0, 0, 0)), Some(TS(9, 10, 0, 0)), "bt_start")
B102 == Build(102, "2", "SUCCESS", Some(TS(9, 30, 0, 0)), Some(TS(9, 40, 0, 0)), "bt_mid")
B103 == Build(103, "3", "SUCCESS", Some(TS(8, 0, 0, 0)), Some(TS(8, 10, 0, 0)), "bt_bare")
B104 == Build(104, "4", "SUCCESS", Some(TS(9, 30, 0, 0)), Some(TS(9, 40, 0, 0)), "bt_start2")

\* builds each polled configuration has had; any of them can be its latest
BuildsOf(c) ==
    CASE c = "cA" -> { Build(11, "5", "FAILURE", Some(TS(10, 0, 0, 0)), Some(TS(10, 5, 0, 0)), c),
                       Build(12, "6", "UNKNOWN", Some(TS(10, 0, 0, 0)), Some(TS(10, 5, 0, 0)), c),
                       Build(13, "7", "SUCCESS", Some(TS(10, 0, 0, 0)), Some(TS(11, 5, 0, 1)), c),
                       Build(14, "8", "SUCCESS", None, Some(TS(10, 5, 0, 0)), c) }
      [] c = "cB" -> { Build(21, "5", "FAILURE", Some(TS(10, 0, 0, 0)), Some(TS(10, 5, 0, 0)), c),
                       Build(22, "7", "SUCCESS", Some(TS(10, 0, 0, 0)), Some(TS(10, 5, 0, 0)), c),
                       Build(23, "8", "SUCCESS", Some(TS(10, 5, 0, 0)), Some(TS(11, 0, 0, 1)), c),
                       Build(24, "9", "SUCCESS", Some(TS(10, 0, 0, 0)), Some(TS(10, 5, 0, 0)), c),
                       Build(25, "10", "SUCCESS", Some(TS(10, 0, 0, 0)), Some(TS(10, 5, 0, 0)), c),
                       Build(26, "11", "SUCCESS", Some(TS(10, 0, 0, 0)), None, c) }
      [] c = "cC" -> { Build(31, "3", "SUCCESS", Some(TS(10, 0, 0, 0)), Some(TS(10, 20, 0, 0)), c),
                       Build(32, "4", "SUCCESS", Some(TS(10, 0, 0, 0)), Some(TS(10, 5, 0, 0)), c) }

\* what GET /app/rest/builds?locator=buildType:<id>,count:1 can hold: no
\* build at all, or one of the configuration's builds
LatestChoices(c) == {None} \cup {Some(b) : b \in BuildsOf(c)}

\* GET /app/rest/builds?locator=snapshotDependency:(to:(id:<id>)): the direct
\* snapshot predecessors in the server's order; None when the answer has no
\* "build" field
SnapshotDependencies(build_id) ==
    CASE build_id = 22  -> Some(<<B101>>)
      [] build_id = 23  -> Some(<<>>)
      [] build_id = 24  -> Some(<<B103, B104, B101>>)
      [] build_id = 25  -> None
      [] build_id = 26  -> Some(<<B101>>)
      [] build_id = 31  -> Some(<<B101>>)
      [] build_id = 32  -> Some(<<B102>>)
      [] build_id = 102 -> Some(<<B101>>)
      [] OTHER          -> Some(<<>>)

\* GET /app/rest/buildTypes/id:<id>?fields=templates(buildType): the template
\* ids; None when the answer has no "templates" field
TemplatesOfBuildType(build_type_id) ==
    CASE build_type_id = "bt_start"  -> Some(<<"Start">>)
      [] build_type_id = "bt_start2" -> Some(<<"Base", "Start">>)
      [] build_type_id = "bt_mid"    -> Some(<<"Mid">>)
      [] build_type_id = "bt_bare"   -> None
      [] build_type_id = "cA"        -> Some(<<"Build">>)
      [] OTHER                       -> Some(<<"Stop">>)

\* GET /app/rest/projects/id:<id>: the webUrl field
ProjectWebUrl(projectid) == Some(<<"u", projectid>>)

(* ---------------------------------------------------------------------- *)
(* Pure helpers of main.py.                                                *)
(* ---------------------------------------------------------------------- *)
\* variant: every status that is not SUCCESS or NO_BUILDS counts as a failure
StatusValueOtherIsFailure(status) ==
    CASE status = "SUCCESS"   -> 1
      [] status = "NO_BUILDS" -> -1
      [] OTHER                -> 0

\* {"SUCCESS": 1, "FAILURE": 0, "NO_BUILDS": -1}.get(status, -1)
StatusValue(status) ==
    CASE status = "SUCCESS"   -> 1
      [] status = "FAILURE"   -> 0
      [] status = "NO_BUILDS" -> -1
      [] OTHER                -> -1

\* variant: the timestamps are compared as wall-clock times, %z dropped
build_duration_wall_clock(build) ==
    IF build.startDate = None \/ build.finishDate = None
    THEN None
    ELSE Some(strptime([Get(build.finishDate) EXCEPT !.off = 0])
              - strptime([Get(build.startDate) EXCEPT !.off = 0]))

\* build_duration_seconds(build): None when a timestamp is missing, else
\* int((finish - start).total_seconds())
build_duration_seconds(build) ==
    IF build.startDate = None \/ build.finishDate = None
    THEN None
    ELSE Some(strptime(Get(build.finishDate)) - strptime(Get(build.startDate)))

\* the loop of get_template_names_for_build_type_id over templates_list
RECURSIVE FirstStartTemplate(_, _)
FirstStartTemplate(templates, i) ==
    IF i > Len(templates) THEN None
    ELSE IF templates[i] \in START_PROJECT_CHAIN THEN Some(templates[i])
    ELSE FirstStartTemplate(templates, i + 1)

\* js.get('templates', {"buildType": []}) and the loop over it
get_template_names_for_build_type_id(build_type_id) ==
    LET js == TemplatesOfBuildType(build_type_id)
        templates_list == IF js = None THEN <<>> ELSE Get(js)
    IN  FirstStartTemplate(templates_list, 1)

\* variant: the matching node's finishDate is returned
RECURSIVE FirstFinishDate(_, _)
FirstFinishDate(nodes, i) ==
    IF i > Len(nodes) THEN None
    ELSE IF get_template_names_for_build_type_id(nodes[i].buildTypeId) = None
         THEN FirstFinishDate(nodes, i + 1)
         ELSE nodes[i].finishDate

\* variant: the loop ends (break, not continue) at a node whose template
\* lookup answer has no "templates" field
RECURSIVE FirstStartDateUntilBare(_, _)
FirstStartDateUntilBare(nodes, i) ==
    IF i > Len(nodes) THEN None
    ELSE IF TemplatesOfBuildType(nodes[i].buildTypeId) = None THEN None
    ELSE IF get_template_names_for_build_type_id(nodes[i].buildTypeId) = None
         THEN FirstStartDateUntilBare(nodes, i + 1)
         ELSE nodes[i].startDate

\* the loop of get_start_date_by_last_build_id over nodes
RECURSIVE FirstStartDate(_, _)
FirstStartDate(nodes, i) ==
    IF i > Len(nodes) THEN None
    ELSE IF get_template_names_for_build_type_id(nodes[i].buildTypeId) = None
         THEN FirstStartDate(nodes, i + 1)
         ELSE nodes[i].startDate

\* variant: when no direct predecessor matches, the predecessors of the first
\* one are searched as well
get_start_date_up_the_chain(build_id) ==
    LET nodes == SnapshotDependencies(build_id)
    IN  IF nodes = None
        THEN [raised |-> TRUE, value |-> None]
        ELSE IF FirstStartDate(Get(nodes), 1) # None \/ Get(nodes) = <<>>
             THEN [raised |-> FALSE, value |-> FirstStartDate(Get(nodes), 1)]
             ELSE LET further == SnapshotDependencies(Get(nodes)[1].id)
                  IN  [raised |-> FALSE,
                       value |-> IF further = None THEN None
                                 ELSE FirstStartDate(Get(further), 1)]

\* get_start_date_by_last_build_id(build_id): iterating nodes = None raises
\* TypeError; otherwise the first matching node's startDate or None
get_start_date_by_last_build_id(build_id) ==
    LET nodes == SnapshotDependencies(build_id)
    IN  IF nodes = None
        THEN [raised |-> TRUE, value |-> None]
        ELSE [raised |-> FALSE, value |-> FirstStartDate(Get(nodes), 1)]

(* ---------------------------------------------------------------------- *)
(* The metrics sink: a gauge is a map from label tuples to values.         *)
(* ---------------------------------------------------------------------- *)
NoSeries == <<>>

\* Gauge.labels(...): the child of the label tuple, created at 0 if new
GaugeLabels(g, key) ==
    [k \in DOMAIN g \cup {key} |-> IF k \in DOMAIN g THEN g[k] ELSE 0]

\* variant: the value is added to the series (inc) instead of replacing it
GaugeInc(g, key, v) ==
    [k \in DOMAIN g \cup {key} |->
        IF k = key THEN (IF k \in DOMAIN g THEN g[k] ELSE 0) + v ELSE g[k]]

\* variant: the gauge is cleared before the value is set
GaugeSetAlone(g, key, v) == [k \in {key} |-> v]

\* Gauge.labels(...).set(v) for a number v
GaugeSet(g, key, v) ==
    [k \in DOMAIN g \cup {key} |-> IF k = key THEN v ELSE g[k]]

\* the label tuple of BUILD_STATUS_GAUGE and BUILD_DURATION_GAUGE
BuildLabels(template_id, cfg) ==
    [build_type_name |-> cfg.name, template_id |-> template_id,
     build_type_id |-> cfg.id, build_url |-> cfg.webUrl]

\* the label tuple of PROJECT_DURATION_GAUGE; str(None) for a missing url
ProjectLabels(k, v) ==
    [projectId |-> k, project_url |-> v.project_url,
     project_name |-> v.project_name, finished_number |-> v.finished_number]

\* all_projects[k] = v on a dict that keeps insertion order
RECURSIVE DictIndex(_, _, _)
DictIndex(d, k, i) ==
    IF i > Len(d) THEN 0
    ELSE IF d[i].k = k THEN i ELSE DictIndex(d, k, i + 1)

\* variant: an entry that is replaced hands its start date down when the new
\* one has none
DictPutMerging(d, k, v) ==
    LET i == DictIndex(d, k, 1)
    IN  IF i = 0 THEN Append(d, [k |-> k, v |-> v])
        ELSE [d EXCEPT ![i] = [k |-> k,
                v |-> [v EXCEPT !.startDate = IF v.startDate = None
                                              THEN d[i].v.startDate
                                              ELSE v.startDate]]]

DictPut(d, k, v) ==
    LET i == DictIndex(d, k, 1)
    IN  IF i = 0 THEN Append(d, [k |-> k, v |-> v])
        ELSE [d EXCEPT ![i] = [k |-> k, v |-> v]]

(* ---------------------------------------------------------------------- *)
(* State.                                                                  *)
(* ---------------------------------------------------------------------- *)
VARIABLES
    \* the process
    environ,            \* os.environ: TEAMCITY_URL, TEAMCITY_TOKEN, TEAMCITY_TEMPLATE_IDS
    serving,            \* start_http_server has bound the metrics endpoint
    scraped,            \* what the scrape just served has observed, else None
    \* the TeamCity server
    latest,             \* build type id -> its latest build, None if it never ran
    archived,           \* ids of the archived projects
    present,            \* ids of the build configurations that exist
    changes,            \* how many times the server's state has changed
    dirty,              \* the server's state changed during the current sleep
    \* the polling thread (fetch_and_update_metrics)
    pc,                 \* where the thread is
    archived_projects, all_projects, ti, build_configs, ci,
    last_build, duration, start_date, ei,
    \* the sink
    statusG,            \* BUILD_STATUS_GAUGE
    durationG,          \* BUILD_DURATION_GAUGE
    projectG,           \* PROJECT_DURATION_GAUGE
    \* history of the run (not program state)
    prev,               \* the three gauges when the current cycle began
    sets,               \* the .set() calls of the current cycle, in order
    outcome,            \* how the current (or last) cycle went: "running",
                        \* "done", "crashed", or what the handler caught:
                        \* "api_fault" (a request failed), "nodes_none"
                        \* (TypeError, no "build" field to iterate),
                        \* "finish_missing" (KeyError 'finishDate'),
                        \* "duration_none" (TypeError, set(None))
    prevOutcome,        \* how the cycle before it went
    unchanged           \* the server is as it was during the cycle before

setup == <<environ, serving>>
server == <<latest, archived, present, changes, dirty>>
locals == <<archived_projects, all_projects, ti, build_configs, ci,
            last_build, duration, start_date, ei>>
gauges == <<statusG, durationG, projectG>>
history == <<prev, sets, outcome, prevOutcome, unchanged>>
vars == <<setup, scraped, server, pc, locals, gauges, history>>

\* line 35-38: the settings as the module reads them
TEAMCITY_URL == environ.TEAMCITY_URL
TOKEN == environ.TEAMCITY_TOKEN
TEMPLATE_IDS ==
    IF environ.TEAMCITY_TEMPLATE_IDS = None THEN <<>>
    ELSE SelectSeq(Get(environ.TEAMCITY_TEMPLATE_IDS), LAMBDA tid : tid # "")

\* get_build_configs_from_template(template_id): the configurations of the
\* template that exist on the server
get_build_configs_from_template(t) ==
    SelectSeq(BuildTypesOfTemplate(t), LAMBDA c : c.id \in present)

\* the synthetic build of a configuration that never ran
NoBuildsDict == [status |-> "NO_BUILDS"]

\* get_last_build_status(build_type_id)
get_last_build_status(build_type_id) ==
    IF latest[build_type_id] = None THEN NoBuildsDict
    ELSE Get(latest[build_type_id])

\* the template and the configuration the two loops are at
template_id == TEMPLATE_IDS[ti]
cfg == build_configs[ci]

SetEvent(gauge, key, val) == [gauge |-> gauge, key |-> key, val |-> val]

\* the exporter starts against a server where one configuration's latest build
\* has an unrecognised status, one has failed and one has never run, and no
\* project is archived; every other server state is reached by the changes
\* the environment makes between two cycles
Init ==
    /\ environ \in [TEAMCITY_URL : UrlChoices, TEAMCITY_TOKEN : TokenChoices,
                     TEAMCITY_TEMPLATE_IDS : TemplateIdsChoices]
    /\ serving = FALSE
    /\ scraped = None
    /\ present = ConfigIds
    /\ latest = [c \in ConfigIds |->
                    CASE c = "cA" -> Some(CHOOSE b \in BuildsOf(c) : b.id = 12)
                      [] c = "cB" -> Some(CHOOSE b \in BuildsOf(c) : b.id = 21)
                      [] OTHER    -> None]
    /\ archived = {}
    /\ changes = 0
    /\ dirty = FALSE
    /\ pc = "main"
    /\ archived_projects = {}
    /\ all_projects = <<>>
    /\ ti = 1
    /\ build_configs = <<>>
    /\ ci = 1
    /\ last_build = NoBuildsDict
    /\ duration = None
    /\ start_date = None
    /\ ei = 1
    /\ statusG = NoSeries
    /\ durationG = NoSeries
    /\ projectG = NoSeries
    /\ prev = <<NoSeries, NoSeries, NoSeries>>
    /\ sets = <<>>
    /\ outcome = "none"
    /\ prevOutcome = "none"
    /\ unchanged = FALSE

(* ---------------------------------------------------------------------- *)
(* Startup (the __main__ block) and the metrics endpoint.                  *)
(* ---------------------------------------------------------------------- *)
\* bool(x) of a setting: None and the empty string are false
Truthy(o) == o # None /\ Get(o) # ""

\* variant: the template list is not among the settings that are checked
AllButTemplates(url, token, template_ids) == Truthy(url) /\ Truthy(token)

\* line 311: all([TEAMCITY_URL, TOKEN, TEMPLATE_IDS])
AllSet(url, token, template_ids) ==
    Truthy(url) /\ Truthy(token) /\ template_ids # <<>>

\* line 311-318: EnvironmentError ends the process, or the endpoint is bound
\* and the polling thread is started
Main ==
    /\ pc = "main"
    /\ IF ~AllSet(TEAMCITY_URL, TOKEN, TEMPLATE_IDS)
       THEN /\ pc' = "exited"
            /\ UNCHANGED serving
       ELSE /\ serving' = TRUE
            /\ pc' = "fetch_archived"
    /\ scraped' = None
    /\ UNCHANGED <<environ, server, locals, gauges, history>>

\* a scrape of the endpoint reads the three gauges; the endpoint is served
\* by a daemon thread, which ends with the polling thread
Scrape ==
    /\ serving
    /\ pc # "crashed"
    /\ scraped' = Some(<<statusG, durationG, projectG>>)
    /\ UNCHANGED <<setup, server, pc, locals, gauges, history>>

(* ---------------------------------------------------------------------- *)
(* The polling thread.                                                     *)
(* ---------------------------------------------------------------------- *)
\* variant: all_projects is made once, before the loop, and never emptied
FetchArchivedKeepsRollups ==
    /\ pc \in {"fetch_archived", "asleep"}
    /\ archived_projects' = archived
    /\ ti' = 1
    /\ pc' = "list_configs"
    /\ outcome' = "running"
    /\ unchanged' = ~dirty
    /\ dirty' = FALSE
    /\ UNCHANGED <<latest, archived, present, changes, all_projects, build_configs, ci,
                   last_build, duration, start_date, ei, gauges,
                   prev, sets, prevOutcome>>
    /\ scraped' = None
    /\ UNCHANGED setup

\* line 260-261: a new cycle begins, at once when the thread starts and when
\* time.sleep returns afterwards; the archived projects are fetched
FetchArchived ==
    /\ pc \in {"fetch_archived", "asleep"}
    /\ archived_projects' = archived
    /\ all_projects' = <<>>
    /\ ti' = 1
    /\ pc' = "list_configs"
    /\ outcome' = "running"
    /\ unchanged' = ~dirty
    /\ dirty' = FALSE
    /\ UNCHANGED <<latest, archived, present, changes, build_configs, ci, last_build,
                   duration, start_date, ei, gauges, prev, sets, prevOutcome>>
    /\ scraped' = None
    /\ UNCHANGED setup

\* line 260: the request fails outside the try block; the exception leaves
\* the while loop and ends the thread, the last thread that is not a daemon:
\* the process is over, its endpoint and its gauges with it
FetchArchivedFault ==
    /\ pc \in {"fetch_archived", "asleep"}
    /\ pc' = "crashed"
    /\ serving' = FALSE
    /\ archived_projects' = {}
    /\ all_projects' = <<>>
    /\ ti' = 1
    /\ build_configs' = <<>>
    /\ ci' = 1
    /\ last_build' = NoBuildsDict
    /\ duration' = None
    /\ start_date' = None
    /\ ei' = 1
    /\ statusG' = NoSeries
    /\ durationG' = NoSeries
    /\ projectG' = NoSeries
    /\ prevOutcome' = outcome
    /\ outcome' = "crashed"
    /\ prev' = <<NoSeries, NoSeries, NoSeries>>
    /\ sets' = <<>>
    /\ scraped' = None
    /\ UNCHANGED <<environ, server, unchanged>>

\* line 263-264
ListConfigs ==
    /\ pc = "list_configs"
    /\ ti <= Len(TEMPLATE_IDS)
    /\ build_configs' = get_build_configs_from_template(template_id)
    /\ ci' = 1
    /\ pc' = "cfg"
    /\ UNCHANGED <<server, archived_projects, all_projects, ti, last_build,
                   duration, start_date, ei, gauges, history>>
    /\ scraped' = None
    /\ UNCHANGED setup

\* line 263: the loop over the templates is over
EndTemplates ==
    /\ pc = "list_configs"
    /\ ti > Len(TEMPLATE_IDS)
    /\ ei' = 1
    /\ pc' = "emit"
    /\ UNCHANGED <<server, archived_projects, all_projects, ti, build_configs, ci,
                   last_build, duration, start_date, gauges, history>>
    /\ scraped' = None
    /\ UNCHANGED setup

\* variant: the configuration's own id is looked up among the project ids
IsArchivedById(c, archivedIds) == c.id \in archivedIds

\* line 267: cfg['projectId'] in archived_projects
IsArchived(c, archivedIds) == c.projectId \in archivedIds

\* line 266-268
SkipArchived ==
    /\ pc = "cfg"
    /\ ci <= Len(build_configs)
    /\ IsArchived(cfg, archived_projects)
    /\ ci' = ci + 1
    /\ UNCHANGED <<server, pc, archived_projects, all_projects, ti, build_configs,
                   last_build, duration, start_date, ei, gauges, history>>
    /\ scraped' = None
    /\ UNCHANGED setup

\* line 266: the loop over the configurations of the template is over
EndConfigs ==
    /\ pc = "cfg"
    /\ ci > Len(build_configs)
    /\ ti' = ti + 1
    /\ pc' = "list_configs"
    /\ UNCHANGED <<server, archived_projects, all_projects, build_configs, ci,
                   last_build, duration, start_date, ei, gauges, history>>
    /\ scraped' = None
    /\ UNCHANGED setup

\* line 269-275
FetchLastBuild ==
    /\ pc = "cfg"
    /\ ci <= Len(build_configs)
    /\ ~IsArchived(cfg, archived_projects)
    /\ LET b == get_last_build_status(cfg.id)
       IN  /\ last_build' = b
           /\ IF b.status = "SUCCESS"
              THEN /\ duration' = build_duration_seconds(b)
                   /\ pc' = IF template_id \in STOP_PROJECT_CHAIN
                            THEN "resolve" ELSE "write_duration"
              ELSE /\ duration' = duration
                   /\ pc' = "write_status"
    /\ UNCHANGED <<server, archived_projects, all_projects, ti, build_configs, ci,
                   start_date, ei, gauges, history>>
    /\ scraped' = None
    /\ UNCHANGED setup

\* the locals that are dead once the try block is left (each is assigned
\* again before it is next read) are set back to their first values
ForgetLocals ==
    /\ ti' = 1
    /\ build_configs' = <<>>
    /\ ci' = 1
    /\ last_build' = NoBuildsDict
    /\ duration' = None
    /\ start_date' = None
    /\ ei' = 1
    /\ UNCHANGED archived_projects

\* line 304-307: the exception is caught and logged, the cycle is over
Caught(kind) ==
    /\ pc' = "sleep"
    /\ outcome' = kind
    /\ ForgetLocals
    /\ UNCHANGED <<prev, sets, prevOutcome, unchanged>>

\* line 276: get_start_date_by_last_build_id(last_build['id'])
ResolveChain ==
    /\ pc = "resolve"
    /\ LET r == get_start_date_by_last_build_id(last_build.id)
       IN  IF r.raised
           THEN Caught("nodes_none")
           ELSE /\ start_date' = r.value
                /\ pc' = "stage"
                /\ UNCHANGED <<archived_projects, ti, build_configs, ci,
                               last_build, duration, ei, history>>
    /\ UNCHANGED <<server, all_projects, gauges>>
    /\ scraped' = None
    /\ UNCHANGED setup

\* variant: the rollup is written to the project gauge as soon as it is
\* stored, when its start date was found
StageRollupAndEmit ==
    /\ pc = "stage"
    /\ IF last_build.finishDate = None
       THEN /\ Caught("finish_missing")
            /\ UNCHANGED <<all_projects, projectG>>
       ELSE LET v == [startDate |-> start_date,
                      finishDate |-> last_build.finishDate,
                      project_name |-> cfg.projectName,
                      project_url |-> ProjectWebUrl(cfg.projectId),
                      finished_number |-> last_build.number,
                      finish_build_id |-> last_build.id]
                key == ProjectLabels(cfg.projectId, v)
            IN  /\ all_projects' = DictPut(all_projects, cfg.projectId, v)
                /\ pc' = "write_duration"
                /\ IF start_date = None
                   THEN UNCHANGED <<projectG, sets>>
                   ELSE /\ projectG' = GaugeSet(projectG, key,
                                                Get(build_duration_seconds(v)))
                        /\ sets' = Append(sets, SetEvent("project", key,
                                                Get(build_duration_seconds(v))))
                /\ UNCHANGED <<archived_projects, ti, build_configs, ci,
                               last_build, duration, start_date, ei,
                               prev, outcome, prevOutcome, unchanged>>
    /\ UNCHANGED <<server, statusG, durationG>>
    /\ scraped' = None
    /\ UNCHANGED setup

\* line 276-281: the rest of the dict and the store into all_projects;
\* last_build["finishDate"] raises KeyError when the field is missing
StageRollup ==
    /\ pc = "stage"
    /\ IF last_build.finishDate = None
       THEN /\ Caught("finish_missing")
            /\ UNCHANGED all_projects
       ELSE /\ all_projects' = DictPut(all_projects, cfg.projectId,
                                 [startDate |-> start_date,
                                  finishDate |-> last_build.finishDate,
                                  project_name |-> cfg.projectName,
                                  project_url |-> ProjectWebUrl(cfg.projectId),
                                  finished_number |-> last_build.number,
                                  finish_build_id |-> last_build.id])
            /\ pc' = "write_duration"
            /\ UNCHANGED <<archived_projects, ti, build_configs, ci,
                           last_build, duration, start_date, ei, history>>
    /\ UNCHANGED <<server, gauges>>
    /\ scraped' = None
    /\ UNCHANGED setup

\* line 282-286: labels() makes the series, set(None) raises TypeError
WriteDuration ==
    /\ pc = "write_duration"
    /\ LET key == BuildLabels(template_id, cfg)
       IN  IF duration = None
           THEN /\ durationG' = GaugeLabels(durationG, key)
                /\ Caught("duration_none")
           ELSE /\ durationG' = GaugeSet(durationG, key, Get(duration))
                /\ sets' = Append(sets, SetEvent("duration", key, Get(duration)))
                /\ pc' = "write_status"
                /\ UNCHANGED <<archived_projects, ti, build_configs, ci, last_build,
                               duration, start_date, ei,
                               prev, outcome, prevOutcome, unchanged>>
    /\ UNCHANGED <<server, all_projects, statusG, projectG>>
    /\ scraped' = None
    /\ UNCHANGED setup

\* line 288-293
WriteStatus ==
    /\ pc = "write_status"
    /\ LET key == BuildLabels(template_id, cfg)
           status_value == StatusValue(last_build.status)
       IN  /\ statusG' = GaugeSet(statusG, key, status_value)
           /\ sets' = Append(sets, SetEvent("status", key, status_value))
    /\ ci' = ci + 1
    /\ pc' = "cfg"
    /\ UNCHANGED <<server, archived_projects, all_projects, ti, build_configs,
                   last_build, duration, start_date, ei, durationG, projectG,
                   prev, outcome, prevOutcome, unchanged>>
    /\ scraped' = None
    /\ UNCHANGED setup

\* line 296: if v['startDate']
HasStartDate(v) == v.startDate # None

\* line 295-303, one item of all_projects
EmitRollup ==
    /\ pc = "emit"
    /\ ei <= Len(all_projects)
    /\ LET k == all_projects[ei].k
           v == all_projects[ei].v
           full_duration == build_duration_seconds(v)
           key == ProjectLabels(k, v)
       IN  IF ~HasStartDate(v)
           THEN /\ ei' = ei + 1
                /\ UNCHANGED <<pc, projectG, history, archived_projects, ti,
                               build_configs, ci, last_build, duration, start_date>>
           ELSE IF full_duration = None
           THEN /\ projectG' = GaugeLabels(projectG, key)
                /\ Caught("duration_none")
           ELSE /\ projectG' = GaugeSet(projectG, key, Get(full_duration))
                /\ sets' = Append(sets, SetEvent("project", key, Get(full_duration)))
                /\ ei' = ei + 1
                /\ UNCHANGED <<pc, prev, outcome, prevOutcome, unchanged,
                               archived_projects, ti, build_configs, ci,
                               last_build, duration, start_date>>
    /\ UNCHANGED <<server, all_projects, statusG, durationG>>
    /\ scraped' = None
    /\ UNCHANGED setup

\* variant: the loop goes round without the sleep of line 307
EndCycleWithoutSleep ==
    /\ pc = "emit"
    /\ ei > Len(all_projects)
    /\ pc' = "asleep"
    /\ outcome' = "done"
    /\ ForgetLocals
    /\ UNCHANGED <<server, all_projects, gauges, prev, sets, prevOutcome, unchanged>>
    /\ scraped' = None
    /\ UNCHANGED setup

\* line 295: every staged rollup was visited; the try block ends normally
EndCycle ==
    /\ pc = "emit"
    /\ ei > Len(all_projects)
    /\ pc' = "sleep"
    /\ outcome' = "done"
    /\ ForgetLocals
    /\ UNCHANGED <<server, all_projects, gauges, prev, sets, prevOutcome, unchanged>>
    /\ scraped' = None
    /\ UNCHANGED setup

\* the thread is about to call the TeamCity API inside the try block
AtApiCall ==
    \/ pc = "list_configs" /\ ti <= Len(TEMPLATE_IDS)
    \/ pc = "cfg" /\ ci <= Len(build_configs) /\ ~IsArchived(cfg, archived_projects)
    \/ pc = "resolve"
    \/ pc = "stage" /\ last_build.finishDate # None

\* variant: the handler also drops the series of the build gauges
ApiFaultClearsSink ==
    /\ AtApiCall
    /\ Caught("api_fault")
    /\ statusG' = NoSeries
    /\ durationG' = NoSeries
    /\ UNCHANGED <<server, all_projects, projectG>>
    /\ scraped' = None
    /\ UNCHANGED setup

\* line 87, 304-306: a request inside the try block fails (transport error or
\* HTTP error status); the exception is caught and logged
ApiFault ==
    /\ AtApiCall
    /\ Caught("api_fault")
    /\ UNCHANGED <<server, all_projects, gauges>>
    /\ scraped' = None
    /\ UNCHANGED setup

\* line 307: the thread enters time.sleep(SCRAPE_INTERVAL); the cycle that is
\* over becomes the cycle before (its record is kept in prev and prevOutcome)
\* and archived_projects, assigned again on line 260 before it is read, is
\* set back to its first value
Sleep ==
    /\ pc = "sleep"
    /\ pc' = "asleep"
    /\ archived_projects' = {}
    /\ prev' = <<statusG, durationG, projectG>>
    /\ sets' = <<>>
    /\ prevOutcome' = outcome
    /\ unchanged' = FALSE
    /\ UNCHANGED <<server, all_projects, ti, build_configs, ci, last_build,
                   duration, start_date, ei, gauges, outcome>>
    /\ scraped' = None
    /\ UNCHANGED setup

(* ---------------------------------------------------------------------- *)
(* The environment: the server's state changes between two cycles.         *)
(* ---------------------------------------------------------------------- *)
\* a build finishes (or the history is cleaned) and the latest build changes
LatestBuildChanges ==
    /\ pc = "asleep"
    /\ changes < MaxChanges
    /\ \E c \in ConfigIds :
          \E b \in LatestChoices(c) :
             /\ latest[c] # b
             /\ latest' = [latest EXCEPT ![c] = b]
    /\ changes' = changes + 1
    /\ dirty' = TRUE
    /\ UNCHANGED <<archived, present, pc, locals, gauges, history>>
    /\ scraped' = None
    /\ UNCHANGED setup

\* a project is archived or dearchived
ArchivedChanges ==
    /\ pc = "asleep"
    /\ changes < MaxChanges
    /\ \E p \in Projects :
          archived' = IF p \in archived THEN archived \ {p} ELSE archived \cup {p}
    /\ changes' = changes + 1
    /\ dirty' = TRUE
    /\ UNCHANGED <<latest, present, pc, locals, gauges, history>>
    /\ scraped' = None
    /\ UNCHANGED setup

\* a build configuration is deleted (or moved away from its templates), or
\* comes back
ConfigChanges ==
    /\ pc = "asleep"
    /\ changes < MaxChanges
    /\ \E c \in ConfigIds :
          present' = IF c \in present THEN present \ {c} ELSE present \cup {c}
    /\ changes' = changes + 1
    /\ dirty' = TRUE
    /\ UNCHANGED <<latest, archived, pc, locals, gauges, history>>
    /\ scraped' = None
    /\ UNCHANGED setup

Next ==
    \/ Main
    \/ FetchArchived
    \/ FetchArchivedFault
    \/ ListConfigs
    \/ EndTemplates
    \/ SkipArchived
    \/ EndConfigs
    \/ FetchLastBuild
    \/ ResolveChain
    \/ StageRollup
    \/ WriteDuration
    \/ WriteStatus
    \/ EmitRollup
    \/ EndCycle
    \/ ApiFault
    \/ Sleep
    \/ LatestBuildChanges
    \/ ArchivedChanges
    \/ ConfigChanges

Spec == Init /\ [][Next]_vars

\* the process with a scraper: the endpoint is read at arbitrary points of the
\* polling thread's run
NextScraped == Next \/ Scrape
SpecScraped == Init /\ [][NextScraped]_vars

(* ---------------------------------------------------------------------- *)
(* Vocabulary of the properties.                                           *)
(* ---------------------------------------------------------------------- *)
\* the .set() calls of the current cycle on one gauge, by position in sets
Events(gauge) == {i \in 1..Len(sets) : sets[i].gauge = gauge}

\* the last value the current cycle set on a series
LastSet(gauge, key) ==
    LET at == {i \in Events(gauge) : sets[i].key = key}
    IN  sets[CHOOSE i \in at : \A j \in at : j <= i].val

\* a gauge as it must be when the cycle's sets are laid over what it held
\* when the cycle began
Overlay(before, gauge) ==
    LET keys == {sets[i].key : i \in Events(gauge)}
    IN  [k \in DOMAIN before \cup keys |->
            IF k \in keys THEN LastSet(gauge, k) ELSE before[k]]

\* the (template, configuration) pairs the configured templates list
Polled ==
    UNION { LET t == TEMPLATE_IDS[i]
                cs == get_build_configs_from_template(t)
            IN  {<<t, cs[j]>> : j \in 1..Len(cs)} : i \in 1..Len(TEMPLATE_IDS) }

\* the status of a configuration's latest build on the server
StatusOf(c) == IF latest[c] = None THEN "NO_BUILDS" ELSE Get(latest[c]).status

\* the cycle is over (it completed or its fault was caught) and the server is
\* still as the cycle saw it
CycleOver == pc = "sleep" /\ ~dirty

(* ---------------------------------------------------------------------- *)
(* C1.  The polling loop has no terminal state: whatever fault a cycle     *)
(* hits, in any of its steps, the fault is caught and the thread goes on   *)
(* to sleep and to the next cycle; the thread is never dead.               *)
(* ---------------------------------------------------------------------- *)
C1_LoopHasNoTerminalState == pc # "crashed"

(* ---------------------------------------------------------------------- *)
(* C2.  When a TeamCity API call fails part-way through a cycle, every     *)
(* series set earlier in the cycle holds the value the cycle set, every    *)
(* other series holds the value it had when the cycle began, and no series *)
(* appears or disappears.                                                  *)
(* ---------------------------------------------------------------------- *)
C2_ApiFaultKeepsEarlierSetsAndOldValues ==
    (pc = "sleep" /\ outcome = "api_fault") =>
        /\ statusG = Overlay(prev[1], "status")
        /\ durationG = Overlay(prev[2], "duration")
        /\ projectG = Overlay(prev[3], "project")

\* a cycle cut short by an API fault after it had set some series anew,
\* while a series of the cycle before was not reached and kept its value
C2_Witness ==
    /\ pc = "sleep"
    /\ outcome = "api_fault"
    /\ \E i \in Events("status") :
          /\ sets[i].key \in DOMAIN prev[1]
          /\ prev[1][sets[i].key] # sets[i].val
    /\ \E k \in DOMAIN prev[1] :
          /\ \A i \in Events("status") : sets[i].key # k
          /\ statusG[k] = prev[1][k]

(* ---------------------------------------------------------------------- *)
(* C3.  Every value written to build_status is 1, 0 or -1: 1 exactly when  *)
(* the latest build's status is SUCCESS, 0 exactly when it is FAILURE, -1  *)
(* exactly when it is NO_BUILDS or any other string.                       *)
(* ---------------------------------------------------------------------- *)
C3_StatusValueMatchesLatestBuild ==
    ~dirty =>
        \A i \in Events("status") :
            LET st == StatusOf(sets[i].key.build_type_id)
                val == sets[i].val
            IN  /\ val \in {1, 0, -1}
                /\ (val = 1) <=> (st = "SUCCESS")
                /\ (val = 0) <=> (st = "FAILURE")
                /\ (val = -1) <=> (st \notin {"SUCCESS", "FAILURE"})
                /\ statusG[sets[i].key] = val

\* one cycle wrote 1 for a SUCCESS, 0 for a FAILURE, -1 for an unrecognised
\* status
C3_Witness ==
    /\ CycleOver
    /\ \E i, j, k \in Events("status") :
          /\ sets[i].val = 1
          /\ sets[j].val = 0
          /\ sets[k].val = -1 /\ StatusOf(sets[k].key.build_type_id) = "UNKNOWN"

\* seconds of a timestamp on the UTC axis, and the seconds from a to b
SecondsUtc(ts) == ts.day * 86400 + (ts.h - ts.off) * 3600 + ts.m * 60 + ts.s
Elapsed(a, b) == SecondsUtc(b) - SecondsUtc(a)

\* the configuration with a given id
ConfigOf(id) == CHOOSE c \in Configs : c.id = id

\* the cycle ran to its end without any fault
CycleDone == CycleOver /\ outcome = "done"

(* ---------------------------------------------------------------------- *)
(* C4, as claimed.  In any cycle build_duration_seconds is written for a   *)
(* (non-archived) configuration if and only if its latest build is         *)
(* SUCCESS, and the value is finishDate - startDate in whole seconds.      *)
(* ---------------------------------------------------------------------- *)
C4_DurationWrittenIffSuccess ==
    CycleOver =>
        \A tc \in Polled :
            tc[2].projectId \notin archived =>
                ((\E i \in Events("duration") : sets[i].key = BuildLabels(tc[1], tc[2]))
                    <=> StatusOf(tc[2].id) = "SUCCESS")

(* ---------------------------------------------------------------------- *)
(* C4, amended.  build_duration_seconds is set for a configuration only if *)
(* its latest build is SUCCESS, under any configured template; the value   *)
(* set is finishDate - startDate in whole seconds, UTC offsets honoured,   *)
(* negative when finish precedes start; a cycle that runs to completion    *)
(* sets it for every non-archived configuration whose latest build is      *)
(* SUCCESS; a configuration with no builds gets no duration set and only   *)
(* -1 as build_status.                                                     *)
(* ---------------------------------------------------------------------- *)
C4_DurationOnlyForSuccessAndExact ==
    ~dirty =>
        /\ \A i \in Events("duration") :
              LET c == sets[i].key.build_type_id
              IN  /\ latest[c] # None
                  /\ Get(latest[c]).status = "SUCCESS"
                  /\ Get(latest[c]).startDate # None
                  /\ Get(latest[c]).finishDate # None
                  /\ sets[i].val = Elapsed(Get(Get(latest[c]).startDate),
                                           Get(Get(latest[c]).finishDate))
                  /\ durationG[sets[i].key] = sets[i].val
        /\ CycleDone =>
              \A tc \in Polled :
                  (tc[2].projectId \notin archived /\ StatusOf(tc[2].id) = "SUCCESS")
                      => \E i \in Events("duration") : sets[i].key = BuildLabels(tc[1], tc[2])
        /\ \A c \in ConfigIds :
              latest[c] = None =>
                  /\ \A i \in Events("duration") : sets[i].key.build_type_id # c
                  /\ \A i \in Events("status") :
                        sets[i].key.build_type_id = c => sets[i].val = -1

\* a completed cycle that set 300 for a SUCCESS build of the non-stop template
\* whose wall-clock times are 3900 apart, -300 for a build that finished
\* before it started, and -1 and no duration for a configuration without builds
C4_Witness ==
    /\ CycleDone
    /\ \E i \in Events("duration") :
          /\ sets[i].key.template_id \notin STOP_PROJECT_CHAIN
          /\ sets[i].val = 300
          /\ Get(Get(latest[sets[i].key.build_type_id]).finishDate).off = 1
    /\ \E i \in Events("duration") : sets[i].val = -300
    /\ \E c \in ConfigIds :
          /\ latest[c] = None
          /\ \E i \in Events("status") :
                sets[i].key.build_type_id = c /\ sets[i].val = -1

(* ---------------------------------------------------------------------- *)
(* C5.  project_duration_seconds is set for a projectId only if, in the    *)
(* same cycle, a stop-template configuration of that project had a SUCCESS *)
(* latest build whose chain start was resolved; the value is the seconds   *)
(* from the resolved upstream build's startDate to that build's            *)
(* finishDate.  A rollup without a start date leaves the gauge untouched   *)
(* and is not emitted by a later cycle.                                    *)
(* ---------------------------------------------------------------------- *)
\* the templates TeamCity reports for a build configuration
TemplatesReported(bt) ==
    IF TemplatesOfBuildType(bt) = None THEN <<>> ELSE Get(TemplatesOfBuildType(bt))

\* the direct snapshot predecessors of a build, as TeamCity lists them
DirectAncestors(build_id) ==
    IF SnapshotDependencies(build_id) = None THEN <<>>
    ELSE Get(SnapshotDependencies(build_id))

\* the positions of the direct predecessors built from a start template
StartAncestors(build_id) ==
    {i \in 1..Len(DirectAncestors(build_id)) :
        \E j \in 1..Len(TemplatesReported(DirectAncestors(build_id)[i].buildTypeId)) :
            TemplatesReported(DirectAncestors(build_id)[i].buildTypeId)[j]
                \in START_PROJECT_CHAIN}

\* the first of them
FirstStartAncestor(build_id) ==
    DirectAncestors(build_id)[CHOOSE i \in StartAncestors(build_id) :
                                 \A j \in StartAncestors(build_id) : i <= j]

C5_ProjectDurationOnlyFromResolvedChain ==
    ~dirty =>
        /\ \A i \in Events("project") :
              \E tc \in Polled :
                  /\ tc[1] \in STOP_PROJECT_CHAIN
                  /\ tc[2].projectId = sets[i].key.projectId
                  /\ tc[2].projectId \notin archived
                  /\ StatusOf(tc[2].id) = "SUCCESS"
                  /\ LET b == Get(latest[tc[2].id])
                     IN  /\ StartAncestors(b.id) # {}
                         /\ b.finishDate # None
                         /\ sets[i].val = Elapsed(Get(FirstStartAncestor(b.id).startDate),
                                                  Get(b.finishDate))
                         /\ sets[i].key.finished_number = b.number
        /\ pc \notin {"fetch_archived", "crashed"} => projectG = Overlay(prev[3], "project")

\* an earlier cycle set the project's duration; the latest cycle completed
\* with a rollup staged without a start date, set nothing for the project and
\* left the series as it was
C5_Witness ==
    /\ CycleDone
    /\ prevOutcome = "done"
    /\ DOMAIN prev[3] # {}
    /\ Len(all_projects) = 1
    /\ all_projects[1].v.startDate = None
    /\ Events("project") = {}
    /\ projectG = prev[3]

(* ---------------------------------------------------------------------- *)
(* C6, as claimed.  Two-stage chain: stop-template configuration cB of     *)
(* project P1 has the SUCCESS latest build 22 (10:00:00 to 10:05:00,       *)
(* +0000) whose only upstream build 101 is of a start-template             *)
(* configuration and started at 09:00:00; no other configuration of P1 has *)
(* a build.  After a fault-free cycle project_duration_seconds of P1 is    *)
(* 3600 and build_duration_seconds of cB is 300.                           *)
(* ---------------------------------------------------------------------- *)
TwoStageScenario ==
    /\ "cB" \in present
    /\ latest["cB"] # None
    /\ Get(latest["cB"]).id = 22
    /\ Get(latest["cB"]).startDate = Some(TS(10, 0, 0, 0))
    /\ Get(latest["cB"]).finishDate = Some(TS(10, 5, 0, 0))
    /\ DirectAncestors(22) = <<B101>>
    /\ B101.startDate = Some(TS(9, 0, 0, 0))
    /\ StartAncestors(22) = {1}
    /\ latest["cC"] = None
    /\ "P1" \notin archived

\* the series of the scenario's project
ScenarioProjectLabels ==
    [projectId |-> "P1", project_url |-> ProjectWebUrl("P1"),
     project_name |-> "One", finished_number |-> "7"]

C6_TwoStageChainIs3600 ==
    (CycleDone /\ TwoStageScenario) =>
        /\ ScenarioProjectLabels \in DOMAIN projectG
        /\ projectG[ScenarioProjectLabels] = 3600
        /\ BuildLabels("Stop", cB) \in DOMAIN durationG
        /\ durationG[BuildLabels("Stop", cB)] = 300

(* ---------------------------------------------------------------------- *)
(* C6, amended.  In that scenario, after a fault-free cycle                *)
(* project_duration_seconds of P1 is 3900 (from 09:00:00, the start of the *)
(* upstream build, to 10:05:00, the finish of the terminal build) and      *)
(* build_duration_seconds of cB is 300.                                    *)
(* ---------------------------------------------------------------------- *)
C6_TwoStageChainIs3900 ==
    (CycleDone /\ TwoStageScenario) =>
        /\ ScenarioProjectLabels \in DOMAIN projectG
        /\ projectG[ScenarioProjectLabels] = 3900
        /\ BuildLabels("Stop", cB) \in DOMAIN durationG
        /\ durationG[BuildLabels("Stop", cB)] = 300

\* a fault-free cycle over the scenario has completed and set both series
C6_Witness ==
    /\ CycleDone
    /\ TwoStageScenario
    /\ \E i \in Events("project") : sets[i].key = ScenarioProjectLabels
    /\ \E i \in Events("duration") : sets[i].key = BuildLabels("Stop", cB)

(* ---------------------------------------------------------------------- *)
(* C7.  Chain resolution returns a start date if and only if at least one  *)
(* direct snapshot ancestor's configuration carries a start template, and  *)
(* then the startDate of the first such ancestor in the server's order;    *)
(* ancestors of ancestors are not looked at.                               *)
(* ---------------------------------------------------------------------- *)
C7_ChainResolutionIsOneHopFirstMatch ==
    pc = "stage" =>
        /\ (start_date # None) <=> (StartAncestors(last_build.id) # {})
        /\ StartAncestors(last_build.id) # {} =>
              start_date = FirstStartAncestor(last_build.id).startDate

\* the resolver has just returned nothing for a build whose only direct
\* ancestor has no start template while that ancestor's own ancestor has one,
\* after it returned, for another build, the start of the first matching
\* ancestor, which is not the earliest of the matching ones
C7_Witness ==
    /\ pc = "stage"
    /\ start_date = None
    /\ Len(DirectAncestors(last_build.id)) = 1
    /\ StartAncestors(DirectAncestors(last_build.id)[1].id) # {}
    /\ Len(all_projects) = 1
    /\ Cardinality(StartAncestors(all_projects[1].v.finish_build_id)) = 2
    /\ all_projects[1].v.startDate = Some(TS(9, 30, 0, 0))
    /\ \E i \in StartAncestors(all_projects[1].v.finish_build_id) :
          Elapsed(Get(DirectAncestors(all_projects[1].v.finish_build_id)[i].startDate),
                  TS(9, 30, 0, 0)) > 0

(* ---------------------------------------------------------------------- *)
(* C8.  A configuration whose projectId is in the archived set the cycle   *)
(* fetched causes no write to any of the three gauges in that cycle, under *)
(* every template that lists it; each cycle uses the set it fetched.       *)
(* ---------------------------------------------------------------------- *)
\* the series of a build gauge, or of the project gauge, that belong to
\* archived projects
ArchivedBuildSeries(g) ==
    {k \in DOMAIN g : ConfigOf(k.build_type_id).projectId \in archived}
ArchivedProjectSeries(g) == {k \in DOMAIN g : k.projectId \in archived}

C8_ArchivedProjectsAreNotWritten ==
    ~dirty =>
        /\ \A i \in Events("status") \cup Events("duration") :
              ConfigOf(sets[i].key.build_type_id).projectId \notin archived
        /\ \A i \in Events("project") : sets[i].key.projectId \notin archived
        /\ \A k \in ArchivedBuildSeries(statusG) :
              k \in DOMAIN prev[1] /\ statusG[k] = prev[1][k]
        /\ \A k \in ArchivedBuildSeries(durationG) :
              k \in DOMAIN prev[2] /\ durationG[k] = prev[2][k]
        /\ \A k \in ArchivedProjectSeries(projectG) :
              k \in DOMAIN prev[3] /\ projectG[k] = prev[3][k]

\* project P1 was archived after a cycle had written its configurations; the
\* next cycle completed, wrote the other project's configuration and nothing
\* of P1, whose latest builds are SUCCESS under both templates
C8_Witness ==
    /\ CycleDone
    /\ archived = {"P1"}
    /\ StatusOf("cB") = "SUCCESS"
    /\ BuildLabels("Stop", cB) \in DOMAIN prev[2]
    /\ BuildLabels("Build", cB) \in DOMAIN prev[2]
    /\ DOMAIN prev[3] # {}
    /\ \E i \in Events("status") : sets[i].key.build_type_id = "cA"
    /\ \A i \in 1..Len(sets) : sets[i].gauge # "project" /\ sets[i].key.build_type_id = "cA"

C10_MissingDatesDoNotAbortCycle ==
    (CycleOver /\ outcome \notin {"api_fault", "nodes_none"}) =>
        /\ \A tc \in Polled :
              tc[2].projectId \notin archived =>
                  \E i \in Events("status") : sets[i].key = BuildLabels(tc[1], tc[2])
        /\ \A e \in 1..Len(all_projects) :
              all_projects[e].v.startDate # None =>
                  \E i \in Events("project") :
                      sets[i].key = ProjectLabels(all_projects[e].k, all_projects[e].v)

(* ---------------------------------------------------------------------- *)
(* C11.  While the process lives, the label tuples a gauge exposes never   *)
(* shrink: a step removes no series, and it changes the value of a series  *)
(* only by a set on that exact label tuple, to the value set.  So a series *)
(* whose configuration disappeared from the server, or whose labels        *)
(* changed, keeps its last-set value in every later state.                 *)
(* ---------------------------------------------------------------------- *)
\* the series of a gauge whose value the step changes
Rewritten(g, gNext) == {k \in DOMAIN g \cap DOMAIN gNext : gNext[k] # g[k]}

\* the step ended with a set of that series of that gauge
JustSet(gauge, k, v) ==
    /\ Len(sets') = Len(sets) + 1
    /\ sets'[Len(sets')] = SetEvent(gauge, k, v)

C11_SeriesAreNeverRemoved ==
    [][pc' # "crashed" =>
          /\ DOMAIN statusG \subseteq DOMAIN statusG'
          /\ DOMAIN durationG \subseteq DOMAIN durationG'
          /\ DOMAIN projectG \subseteq DOMAIN projectG'
          /\ \A k \in Rewritten(statusG, statusG') : JustSet("status", k, statusG'[k])
          /\ \A k \in Rewritten(durationG, durationG') : JustSet("duration", k, durationG'[k])
          /\ \A k \in Rewritten(projectG, projectG') : JustSet("project", k, projectG'[k])
          /\ Cardinality(Rewritten(statusG, statusG') \cup (DOMAIN statusG' \ DOMAIN statusG)) +
             Cardinality(Rewritten(durationG, durationG') \cup (DOMAIN durationG' \ DOMAIN durationG)) +
             Cardinality(Rewritten(projectG, projectG') \cup (DOMAIN projectG' \ DOMAIN projectG)) <= 1
      ]_vars

\* configuration cB was deleted after a cycle had set its series and the
\* duration of its project; the next cycle completed without touching them,
\* and they are still exposed with the values set then
C11_Witness ==
    /\ CycleDone
    /\ "cB" \notin present
    /\ sets # <<>>
    /\ \A i \in 1..Len(sets) :
          sets[i].gauge # "project" /\ sets[i].key.build_type_id # "cB"
    /\ BuildLabels("Stop", cB) \in DOMAIN statusG
    /\ statusG[BuildLabels("Stop", cB)] = 1
    /\ BuildLabels("Build", cB) \in DOMAIN durationG
    /\ durationG[BuildLabels("Build", cB)] = 300
    /\ ScenarioProjectLabels \in DOMAIN projectG
    /\ projectG[ScenarioProjectLabels] = 3900

(* ---------------------------------------------------------------------- *)
(* C12.  When two successful stop-template configurations processed in the *)
(* same cycle belong to the same project, the rollup of the one processed  *)
(* later replaces the earlier one whole: a cycle sets                      *)
(* project_duration_seconds at most once per project, and a completed      *)
(* cycle sets it from the later configuration's start date, finish date    *)
(* and build number only, not at all when that start date is absent.       *)
(* ---------------------------------------------------------------------- *)
\* the (template, configuration) pairs in the order a cycle processes them
RECURSIVE ProcessingOrder(_)
ProcessingOrder(i) ==
    IF i > Len(TEMPLATE_IDS) THEN <<>>
    ELSE LET cs == get_build_configs_from_template(TEMPLATE_IDS[i])
         IN  [j \in 1..Len(cs) |-> <<TEMPLATE_IDS[i], cs[j]>>] \o ProcessingOrder(i + 1)

\* those of them that stage a rollup for project p
Stagers(p) ==
    SelectSeq(ProcessingOrder(1),
              LAMBDA tc : /\ tc[1] \in STOP_PROJECT_CHAIN
                          /\ tc[2].projectId = p
                          /\ p \notin archived
                          /\ StatusOf(tc[2].id) = "SUCCESS")

\* the sets of the current cycle on the project gauge for project p
ProjectEvents(p) == {i \in Events("project") : sets[i].key.projectId = p}

\* the rollup a stop-template configuration stages from its latest build b
RollupOf(c, b) ==
    [startDate |-> IF StartAncestors(b.id) = {} THEN None
                   ELSE FirstStartAncestor(b.id).startDate,
     finishDate |-> b.finishDate,
     project_name |-> c.projectName,
     project_url |-> ProjectWebUrl(c.projectId),
     finished_number |-> b.number,
     finish_build_id |-> b.id]

C12_LaterRollupReplacesEarlier ==
    \A p \in Projects :
        /\ Cardinality(ProjectEvents(p)) <= 1
        /\ (CycleDone /\ Len(Stagers(p)) >= 2) =>
              LET later == Stagers(p)[Len(Stagers(p))]
                  b == Get(latest[later[2].id])
                  v == RollupOf(later[2], b)
              IN  /\ \E e \in 1..Len(all_projects) :
                        /\ all_projects[e] = [k |-> p, v |-> v]
                        /\ \A f \in 1..Len(all_projects) : all_projects[f].k = p => f = e
                  /\ IF v.startDate = None
                     THEN ProjectEvents(p) = {}
                     ELSE \E i \in ProjectEvents(p) :
                             /\ sets[i].key = ProjectLabels(p, v)
                             /\ sets[i].val = Elapsed(Get(v.startDate), Get(v.finishDate))

\* a completed cycle in which the earlier configuration of the project had
\* resolved a chain start and the later one had not: the later rollup is what
\* is staged, and the project's duration was not set
C12_Witness ==
    /\ CycleDone
    /\ Len(Stagers("P1")) = 2
    /\ StartAncestors(Get(latest[Stagers("P1")[1][2].id]).id) # {}
    /\ StartAncestors(Get(latest[Stagers("P1")[2][2].id]).id) = {}
    /\ Len(all_projects) = 1
    /\ all_projects[1].v.finish_build_id = Get(latest[Stagers("P1")[2][2].id]).id
    /\ all_projects[1].v.startDate = None
    /\ ProjectEvents("P1") = {}

\* a completed cycle in which both had resolved a chain start, to different
\* durations: the one set is the later configuration's
C12_BothResolved ==
    /\ CycleDone
    /\ Len(Stagers("P1")) = 2
    /\ StartAncestors(Get(latest[Stagers("P1")[1][2].id]).id) # {}
    /\ StartAncestors(Get(latest[Stagers("P1")[2][2].id]).id) # {}
    /\ \E i \in ProjectEvents("P1") : sets[i].val = 4800

(* ---------------------------------------------------------------------- *)
(* C13.  If the TeamCity URL, the token or the template id list is missing *)
(* at startup, the process terminates abnormally before it binds the       *)
(* metrics endpoint and before any polling cycle: the endpoint is never    *)
(* bound, no cycle (hence no API call) ever starts and no gauge is ever    *)
(* written.                                                                *)
(* ---------------------------------------------------------------------- *)
\* one of the three required settings is missing or empty
SettingMissing ==
    \/ environ.TEAMCITY_URL = None \/ environ.TEAMCITY_URL = Some("")
    \/ environ.TEAMCITY_TOKEN = None
    \/ environ.TEAMCITY_TEMPLATE_IDS = None
    \/ \A i \in 1..Len(Get(environ.TEAMCITY_TEMPLATE_IDS)) :
          Get(environ.TEAMCITY_TEMPLATE_IDS)[i] = ""

C13_MissingSettingRefusesToStart ==
    SettingMissing =>
        /\ pc \in {"main", "exited"}
        /\ ~serving
        /\ outcome = "none"
        /\ sets = <<>>
        /\ <<statusG, durationG, projectG>> = <<NoSeries, NoSeries, NoSeries>>

\* the process has ended at startup with the URL and the token set and a
\* template list that holds blank items only
C13_Witness ==
    /\ pc = "exited"
    /\ Truthy(environ.TEAMCITY_URL)
    /\ Truthy(environ.TEAMCITY_TOKEN)
    /\ environ.TEAMCITY_TEMPLATE_IDS = Some(<<"", "">>)

(* ---------------------------------------------------------------------- *)
(* C14.  Within a cycle build_status of a configuration is written right   *)
(* after its latest build is fetched, before chain resolution, the         *)
(* project-URL lookup and the build_duration_seconds write for that        *)
(* configuration: whenever the thread is at one of these three steps, the  *)
(* cycle has already set the configuration's build_status, so a fault      *)
(* there leaves it updated.                                                *)
(* ---------------------------------------------------------------------- *)
C14_StatusIsWrittenBeforeChainResolution ==
    pc \in {"resolve", "stage", "write_duration"} =>
        \E i \in Events("status") :
            /\ sets[i].key = BuildLabels(template_id, cfg)
            /\ sets[i].val = StatusValue(last_build.status)

(* ---------------------------------------------------------------------- *)
(* C15.  The scheduler runs the first cycle at once, with no sleep before  *)
(* it; cycles run strictly one after another; between two consecutive      *)
(* cycles there is exactly one sleep, and no cycle is made up for: a cycle *)
(* begins only from startup (the first) or out of the sleep that followed  *)
(* the cycle before, a cycle that is over is followed by that sleep and    *)
(* nothing else, and a cycle is never begun while one is running.          *)
(* ---------------------------------------------------------------------- *)
\* the thread is inside a cycle (lines 260-306)
InCycle(at) == at \in {"list_configs", "cfg", "resolve", "stage",
                       "write_duration", "write_status", "emit"}

\* the step begins a cycle: line 260 is run
CycleBegins == outcome' = "running" /\ outcome # "running"

C15_OneSleepBetweenCycles ==
    [][/\ (pc = "main" /\ pc' # "main") => pc' \in {"fetch_archived", "exited"}
       /\ pc = "fetch_archived" => outcome = "none"
       /\ CycleBegins =>
             /\ pc \in {"fetch_archived", "asleep"}
             /\ (pc = "asleep") <=> (outcome # "none")
             /\ InCycle(pc')
       /\ InCycle(pc) => outcome = "running"
       /\ (InCycle(pc) /\ ~InCycle(pc')) => (pc' = "sleep" /\ outcome' # "running")
       /\ (pc = "sleep" /\ pc' # "sleep") => (pc' = "asleep" /\ outcome' = outcome)
       /\ (pc = "asleep" /\ pc' # "asleep") => (CycleBegins \/ pc' = "crashed")
      ]_vars

\* the second cycle is running and has set a series: the first one ran to
\* completion from startup and was followed by its sleep
C15_Witness ==
    /\ InCycle(pc)
    /\ outcome = "running"
    /\ prevOutcome = "done"
    /\ sets # <<>>

(* ---------------------------------------------------------------------- *)
(* C16.  A scrape runs alongside the polling cycle without coordination.   *)
(* It can observe some series at the current cycle's value while others    *)
(* still hold the value of the cycle before; yet every value it observes   *)
(* for a series is a value some cycle set on that exact label tuple: the   *)
(* series was there, with that value, when the current cycle began, or the *)
(* current cycle has set it to that value.                                 *)
(* ---------------------------------------------------------------------- *)
\* the gauge the i-th component of an observation belongs to
GaugeName(i) == <<"status", "duration", "project">>[i]

C16_ScrapedValuesWereSet ==
    scraped # None =>
        \A g \in 1..3 :
            \A k \in DOMAIN Get(scraped)[g] :
                \/ k \in DOMAIN prev[g] /\ prev[g][k] = Get(scraped)[g][k]
                \/ \E i \in Events(GaugeName(g)) :
                      sets[i].key = k /\ sets[i].val = Get(scraped)[g][k]

\* a scrape in the middle of a cycle has observed the build_status of cB at
\* the current cycle's value under one template and at the value of the cycle
\* before, which the cycle goes on to replace, under the other
C16_PartialObservation ==
    /\ scraped # None
    /\ outcome = "running"
    /\ BuildLabels("Stop", cB) \in DOMAIN prev[1]
    /\ BuildLabels("Build", cB) \in DOMAIN prev[1]
    /\ Get(scraped)[1][BuildLabels("Stop", cB)] = StatusValue(StatusOf("cB"))
    /\ Get(scraped)[1][BuildLabels("Stop", cB)] # prev[1][BuildLabels("Stop", cB)]
    /\ Get(scraped)[1][BuildLabels("Build", cB)] = prev[1][BuildLabels("Build", cB)]
    /\ Get(scraped)[1][BuildLabels("Build", cB)] # StatusValue(StatusOf("cB"))
    /\ "cB" \in present
    /\ "P1" \notin archived_projects

(* ---------------------------------------------------------------------- *)
(* C17.  A successful stop-template build without upstream snapshot        *)
(* dependency builds resolves to "not found" and not to a fault: unless a  *)
(* request fails or a timestamp is missing, the cycle goes on to its end,  *)
(* the build_duration_seconds and the build_status of that configuration   *)
(* are written, and nothing is written to project_duration_seconds for its *)
(* project on its account.                                                 *)
(* ---------------------------------------------------------------------- *)
\* the stop-template pairs a cycle processes whose latest build is SUCCESS
\* and has no upstream snapshot dependency build
WithoutUpstream ==
    {tc \in Polled : /\ tc[1] \in STOP_PROJECT_CHAIN
                     /\ tc[2].projectId \notin archived
                     /\ StatusOf(tc[2].id) = "SUCCESS"
                     /\ DirectAncestors(Get(latest[tc[2].id]).id) = <<>>}

C17_NoUpstreamBuildsIsNotFound ==
    (CycleOver /\ outcome \notin {"api_fault", "finish_missing", "duration_none"}) =>
        \A tc \in WithoutUpstream :
            /\ outcome = "done"
            /\ \E i \in Events("duration") : sets[i].key = BuildLabels(tc[1], tc[2])
            /\ \E i \in Events("status") :
                  sets[i].key = BuildLabels(tc[1], tc[2]) /\ sets[i].val = 1
            /\ \A i \in ProjectEvents(tc[2].projectId) :
                  sets[i].key.finished_number # Get(latest[tc[2].id]).number

\* a completed cycle over such a build whose upstream answer is an empty list:
\* both series of the configuration are set, nothing is set for its project
C17_EmptyListIsNotFound ==
    /\ CycleDone
    /\ \E tc \in WithoutUpstream :
          /\ SnapshotDependencies(Get(latest[tc[2].id]).id) = Some(<<>>)
          /\ \E i \in Events("duration") : sets[i].key = BuildLabels(tc[1], tc[2])
          /\ ProjectEvents(tc[2].projectId) = {}

(* ---------------------------------------------------------------------- *)
(* C18.  During chain resolution an upstream build whose configuration's   *)
(* template lookup answer has no "templates" field is skipped and the      *)
(* resolver goes on to the next upstream build; this is no fault and does  *)
(* not abort the cycle: unless the request itself fails, resolution of a   *)
(* build with such an upstream build returns, with the start date of the   *)
(* first start-template build among the other upstream builds, and a       *)
(* cycle whose only irregularity is such a build runs to completion.       *)
(* ---------------------------------------------------------------------- *)
\* the positions of the direct predecessors whose template lookup answer has
\* no "templates" field
BareAncestors(build_id) ==
    {i \in 1..Len(DirectAncestors(build_id)) :
        TemplatesOfBuildType(DirectAncestors(build_id)[i].buildTypeId) = None}

C18_MissingTemplatesFieldIsSkipped ==
    [][(/\ pc = "resolve"
        /\ pc' # "resolve"
        /\ BareAncestors(last_build.id) # {}
        /\ outcome' # "api_fault")
          => /\ pc' = "stage"
             /\ outcome' = "running"
             /\ BareAncestors(last_build.id) \cap StartAncestors(last_build.id) = {}
             /\ start_date' = IF StartAncestors(last_build.id) = {} THEN None
                              ELSE FirstStartAncestor(last_build.id).startDate
      ]_vars

\* a cycle has run to completion after the resolver had skipped the first
\* upstream build of build 24, whose template lookup answer has no
\* "templates" field, and returned the start date of the next upstream build
C18_Witness ==
    /\ CycleDone
    /\ \E e \in 1..Len(all_projects) :
          /\ 1 \in BareAncestors(all_projects[e].v.finish_build_id)
          /\ 2 \in StartAncestors(all_projects[e].v.finish_build_id)
          /\ all_projects[e].v.startDate =
                DirectAncestors(all_projects[e].v.finish_build_id)[2].startDate
          /\ \E i \in Events("project") :
                sets[i].key = ProjectLabels(all_projects[e].k, all_projects[e].v)

(* ---------------------------------------------------------------------- *)
(* C19.  project_duration_seconds is written only after every              *)
(* configuration of every configured template has been processed without   *)
(* fault: while configurations are processed the cycle has made no write   *)
(* to the project gauge, the writes begin when the template loop is over   *)
(* and every polled configuration outside the archived projects has had    *)
(* its status written, and a cycle that aborted while configurations were  *)
(* processed has made no write to the project gauge at all, which holds    *)
(* what it held when the cycle began, even for a rollup that was stored    *)
(* with a start date before the fault.                                     *)
(* ---------------------------------------------------------------------- *)
\* the thread is in the loops over the templates and their configurations
ProcessingConfigs ==
    pc \in {"list_configs", "cfg", "resolve", "stage", "write_duration",
            "write_status"}

\* the cycle has made no write to the project gauge
NoProjectWrite == Events("project") = {} /\ projectG = prev[3]

C19_ProjectWritesOnlyAfterAllConfigs ==
    /\ ProcessingConfigs => NoProjectWrite
    /\ (pc = "sleep" /\ outcome # "done") => NoProjectWrite
    /\ pc = "emit" =>
          /\ ti > Len(TEMPLATE_IDS)
          /\ \A tc \in Polled :
                ~IsArchived(tc[2], archived_projects)
                  => \E i \in Events("status") :
                        sets[i].key = BuildLabels(tc[1], tc[2])

\* a request failed after a rollup had been stored with a start date: the
\* cycle is over, the rollup is still in all_projects and its series was
\* never made
C19_Witness ==
    /\ pc = "sleep"
    /\ outcome = "api_fault"
    /\ Events("status") # {}
    /\ NoProjectWrite
    /\ \E e \in 1..Len(all_projects) :
          /\ HasStartDate(all_projects[e].v)
          /\ ProjectLabels(all_projects[e].k, all_projects[e].v)
                \notin DOMAIN projectG

(* ---------------------------------------------------------------------- *)
(* C20.  A cycle in which a configuration's latest build is not SUCCESS    *)
(* leaves the configuration's build_duration_seconds series as it was, so  *)
(* the series always holds the duration of the latest build seen by the    *)
(* most recent cycle in which that build was SUCCESS and the write was     *)
(* reached: a step makes or changes a duration series only at the write of *)
(* lines 282-286, for the configuration in hand, whose latest build is     *)
(* SUCCESS, and whenever that write is reached the series holds            *)
(* finishDate - startDate of that build afterwards; the status series of   *)
(* the same label tuple may be 0 or -1 meanwhile.                          *)
(* ---------------------------------------------------------------------- *)
C20_DurationHoldsLastSuccess ==
    [][pc' # "crashed" =>
         /\ \A k \in DOMAIN durationG' :
               (k \notin DOMAIN durationG \/ durationG'[k] # durationG[k])
                 => /\ pc = "write_duration"
                    /\ k = BuildLabels(template_id, cfg)
                    /\ last_build.status = "SUCCESS"
         /\ pc = "write_duration" =>
               /\ BuildLabels(template_id, cfg) \in DOMAIN durationG'
               /\ last_build.startDate # None
               /\ last_build.finishDate # None
               /\ durationG'[BuildLabels(template_id, cfg)] =
                     Elapsed(Get(last_build.startDate), Get(last_build.finishDate))
      ]_vars

\* the frame half alone: a duration series is made or changed only at the
\* write of lines 282-286, for the configuration in hand, whose latest build
\* is SUCCESS
C20_OnlySuccessTouchesDuration ==
    [][pc' # "crashed" =>
         \A k \in DOMAIN durationG' :
             (k \notin DOMAIN durationG \/ durationG'[k] # durationG[k])
               => /\ pc = "write_duration"
                  /\ k = BuildLabels(template_id, cfg)
                  /\ last_build.status = "SUCCESS"
      ]_vars

\* a later cycle saw a FAILURE build and set the status to 0 while the
\* duration series still holds the 300 of the earlier SUCCESS build
C20_StaleDurationBesideFailure ==
    /\ CycleDone
    /\ \E i \in Events("status") :
          /\ sets[i].val = 0
          /\ sets[i].key \in DOMAIN durationG
          /\ durationG[sets[i].key] = 300
          /\ \A j \in Events("duration") : sets[j].key # sets[i].key

====
